---------------------------- MODULE Spec2Model ----------------------------
(***************************************************************************)
(* A model of the numeric core of veles.znicz:                             *)
(*   - libZnicz All2All: parameter injection and forward execution         *)
(*     (src/libZnicz/src/all2all.cc);                                      *)
(*   - the pooling back-propagation kernels gd_max_pooling and             *)
(*     gd_avg_pooling (src/ocl/gradient_descent_pooling.cl);               *)
(*   - the weights_update kernel body                                      *)
(*     (src/cuda/weights_update.store_output.cu);                          *)
(*   - the denormalization kernel template                                 *)
(*     (src/cuda/denormalization.jcu).                                     *)
(*                                                                         *)
(* dtype values are modelled as exact integers: every product, sum and     *)
(* quotient the model forms is exact, so floating-point rounding is        *)
(* outside the model.                                                      *)
(*                                                                         *)
(* Each subsystem has its own specification (SpecAttr, SpecExec, SpecMax,  *)
(* SpecAvg, SpecUpd, SpecTpl); a specification leaves the variables of the *)
(* other subsystems at their idle values.                                  *)
(***************************************************************************)
EXTENDS Integers, Sequences, FiniteSets, TLC

VARIABLES
  \* ---- All2All object (all2all.cc) ----
  weights_,          \* std::shared_ptr<float> weights_   (Null or a sequence)
  bias_,             \* std::shared_ptr<float> bias_
  weights_length_,   \* size_t weights_length_
  bias_length_,      \* size_t bias_length_
  call,              \* the SetParameter / Execute call made last, with its outcome
  exec,              \* Execute's arguments and result buffer
  \* ---- pooling back-propagation (gradient_descent_pooling.cl) ----
  geom,              \* the externally defined macros SX, SY, N_CHANNELS, KX, ...
  err_y,             \* __global const dtype *err_y
  err_h,             \* __global dtype *err_h
  h_offs,            \* __global const int *h_offs
  ran,               \* the work-items (global ids) that have run
  item,              \* per work-item that ran: what it computed and wrote
  \* ---- weights_update (weights_update.store_output.cu) ----
  upd,               \* the kernel's macros, scalar arguments and input buffers
  weights,           \* __global dtype *weights
  gd,                \* per work-item that ran: its local dtype gd
  stepped,           \* the work-items (global ids) that have run
  \* ---- denormalization template (denormalization.jcu) ----
  tpl,               \* the template's variables: normalization, coeffs
  kernel             \* the expanded source and what the compiler made of it

a2aVars == <<weights_, bias_, weights_length_, bias_length_, call, exec>>

poolVars == <<geom, err_y, err_h, h_offs, ran, item>>

updVars == <<upd, weights, gd, stepped>>

tplVars == <<tpl, kernel>>

vars == <<weights_, bias_, weights_length_, bias_length_, call, exec,
          geom, err_y, err_h, h_offs, ran, item,
          upd, weights, gd, stepped, tpl, kernel>>

(***************************************************************************)
(* Generic helpers.                                                        *)
(***************************************************************************)
Min(a, b) == IF a < b THEN a ELSE b

RECURSIVE SumSet(_, _)
\* the sum of f[x] over the finite set S
SumSet(f, S) ==
  IF S = {} THEN 0
  ELSE LET x == CHOOSE y \in S : TRUE IN f[x] + SumSet(f, S \ {x})

(***************************************************************************)
(* All2All: attribute binding.                                             *)
(***************************************************************************)
\* A null std::shared_ptr<float>: no array at all (every array is nonempty).
Null == <<>>

\* Longest array a parameter value carries.
MaxLength == 2

\* The payloads a caller can hand over as float arrays.
Arrays == {<<1>>, <<2, 3>>}

\* A type-erased value: the pointee of the std::shared_ptr<const void>
\* together with the dynamic type the pointee really has.
Values ==
  [type : {"float*"}, val : Arrays] \cup
  [type : {"size_t"}, val : 0..MaxLength] \cup
  [type : {"string"}, val : {"tanh"}]

\* The names the constructor registers, in registration order.
SetterNames == <<"weights", "bias", "weights_length", "bias_length">>

\* Names a serialized model may carry that All2All does not register.
OtherNames == {"weights_transposed", "activation"}

Names == {SetterNames[i] : i \in 1..Len(SetterNames)} \cup OtherNames

\* The type of the field a setter is bound to.
FieldType(name) ==
  IF name \in {"weights", "bias"} THEN "float*" ELSE "size_t"

\* The object's fields as one record, for reading back.
Fields ==
  [weights |-> weights_, bias |-> bias_,
   weights_length |-> weights_length_, bias_length |-> bias_length_]

\* A setter that skips a value of the wrong dynamic type without reporting it.
GetSetter_Silent(name, value, f) ==
  [ok |-> TRUE,
   fields |-> IF value.type = FieldType(name)
              THEN [f EXCEPT ![name] = value.val] ELSE f]

\* Attribute::GetSetter(&field): the closure stored in setters_.  Given the
\* opaque value it checks the value's dynamic type against the field's and
\* either writes the field or fails with TypeMismatch, writing nothing.
GetSetter(name, value, f) ==
  IF value.type = FieldType(name)
  THEN [ok |-> TRUE, fields |-> [f EXCEPT ![name] = value.val]]
  ELSE [ok |-> FALSE, fields |-> f]

\* The constructor's setters_ map: the registered names.
setters_ == {SetterNames[i] : i \in 1..Len(SetterNames)}

\* setters_.find(name) replaced by setters_.at(name): an absent name throws.
Find_At(name) ==
  IF name \in setters_ THEN "found" ELSE "out_of_range"

\* setters_.find(name): "found" when it != setters_.end().
Find(name) ==
  IF name \in setters_ THEN "found" ELSE "end"

\* All2All::SetParameter(name, value)
SetParameter(name, value) ==
  LET it == Find(name) IN
  IF it = "found"
  THEN LET r == GetSetter(name, value, Fields) IN
       /\ weights_' = r.fields.weights
       /\ bias_' = r.fields.bias
       /\ weights_length_' = r.fields.weights_length
       /\ bias_length_' = r.fields.bias_length
       /\ call' = [op |-> "SetParameter", name |-> name, value |-> value,
                   error |-> IF r.ok THEN "none" ELSE "TypeMismatch"]
  ELSE /\ UNCHANGED <<weights_, bias_, weights_length_, bias_length_>>
       /\ call' = [op |-> "SetParameter", name |-> name, value |-> value,
                   error |-> IF it = "end" THEN "none" ELSE it]

NoCall == [op |-> "none", name |-> "", value |-> [type |-> "", val |-> 0],
           error |-> "none"]

NoExec == [in |-> <<>>, out |-> <<>>, input_count |-> 0, output_count |-> 0,
           activation |-> "linear"]

\* No pooling kernel is configured.
PoolIdle ==
  /\ geom = [SX |-> 0]
  /\ err_y = <<>>
  /\ err_h = <<>>
  /\ h_offs = <<>>
  /\ ran = {}
  /\ item = <<>>

\* No weights_update launch is set up.
UpdIdle ==
  /\ upd = [H |-> 0]
  /\ weights = <<>>
  /\ gd = <<>>
  /\ stepped = {}

\* No template is being expanded.
TplIdle ==
  /\ tpl = [normalization |-> ""]
  /\ kernel = [status |-> "none"]

\* All2All::All2All(): default-constructed pointers, zero lengths.
InitAttr ==
  /\ weights_ = Null
  /\ bias_ = Null
  /\ weights_length_ = 0
  /\ bias_length_ = 0
  /\ call = NoCall
  /\ exec = NoExec
  /\ PoolIdle
  /\ UpdIdle
  /\ TplIdle

SetParameterStep ==
  /\ \E name \in Names, value \in Values : SetParameter(name, value)
  /\ UNCHANGED exec
  /\ UNCHANGED <<poolVars, updVars, tplVars>>

NextAttr == SetParameterStep

SpecAttr == InitAttr /\ [][NextAttr]_vars

\* C1: SetParameter with a name the constructor did not register raises no
\* error and leaves weights, bias, weights_length and bias_length as they
\* were, whatever the value and whatever calls came before.
C1_UnknownNameIsNoOp ==
  [][(call'.op = "SetParameter" /\ call'.name \notin
        {"weights", "bias", "weights_length", "bias_length"})
       => (/\ call'.error = "none"
           /\ weights_' = weights_
           /\ bias_' = bias_
           /\ weights_length_' = weights_length_
           /\ bias_length_' = bias_length_)]_vars

\* An unregistered name was passed to an object that already holds
\* injected weights.
C1_Witness ==
  /\ call.op = "SetParameter"
  /\ call.name = "activation"
  /\ weights_ # Null
  /\ bias_length_ > 0

\* C2: SetParameter with a registered name and a value of another dynamic
\* type than the bound field's fails with TypeMismatch and leaves every field
\* as it was.
C2_TypeMismatchWritesNothing ==
  [][(/\ call'.op = "SetParameter"
      /\ call'.name \in {"weights", "bias", "weights_length", "bias_length"}
      /\ call'.value.type #
           (IF call'.name \in {"weights", "bias"} THEN "float*" ELSE "size_t"))
       => (/\ call'.error = "TypeMismatch"
           /\ weights_' = weights_
           /\ bias_' = bias_
           /\ weights_length_' = weights_length_
           /\ bias_length_' = bias_length_)]_vars

\* A size_t was injected as "weights" into an object whose weights were set.
C2_Witness ==
  /\ call.op = "SetParameter"
  /\ call.name = "weights"
  /\ call.value.type = "size_t"
  /\ call.error = "TypeMismatch"
  /\ weights_ # Null


(***************************************************************************)
(* All2All: forward execution.                                             *)
(***************************************************************************)
\* Largest input_count and output_count of a configured layer.
MaxCount == 2

\* The dtype values the buffers of a configured layer are drawn from.
WeightVals == {-1, 2}
InputVals == {1, 3}
BiasVals == {0, 5}

\* What the caller's output buffer holds before Execute writes it
\* (kValueOutputInit of the tests).
OutputInit == 0

\* The activation functions a unit is configured with.
Activations == {"linear", "tanh"}

\* buf[k], k counted from 0 as in the C arrays.
At(buf, k) == buf[k + 1]

RECURSIVE Dot(_, _, _, _, _)
\* m1[o1] * m2[o2] + ... + m1[o1 + n - 1] * m2[o2 + n - 1]
Dot(m1, o1, m2, o2, n) ==
  IF n = 0 THEN 0
  ELSE Dot(m1, o1, m2, o2, n - 1) + At(m1, o1 + n - 1) * At(m2, o2 + n - 1)

RECURSIVE DotStrided(_, _, _, _, _, _)
\* m1[o1 + k] * m2[o2 + k * stride], summed over k < n
DotStrided(m1, o1, m2, o2, stride, n) ==
  IF n = 0 THEN 0
  ELSE DotStrided(m1, o1, m2, o2, stride, n - 1)
       + At(m1, o1 + n - 1) * At(m2, o2 + (n - 1) * stride)

\* The untransposed product m1 * m2 with the same arguments: row i of m1
\* against column j of m2 read as w1 rows of h2 columns.
matrix_multiply_plain(m1, m2, w1, h1, w2, h2) ==
  [r \in 1..(h1 * h2) |->
     LET i == (r - 1) \div h2
         j == (r - 1) % h2
     IN DotStrided(m1, i * w1, m2, j, h2, w1)]

\* matrix_multiply_transposed(simd, m1, m2, w1, h1, w2, h2, res) of libSimd:
\* res = m1 * transpose(m2), where m1 has h1 rows of w1 columns, m2 has h2
\* rows of w2 columns (w1 = w2) and res has h1 rows of h2 columns, all
\* row-major: res[i][j] is row i of m1 times row j of m2.
matrix_multiply_transposed(m1, m2, w1, h1, w2, h2) ==
  [r \in 1..(h1 * h2) |->
     LET i == (r - 1) \div h2
         j == (r - 1) % h2
     IN Dot(m1, i * w1, m2, j * w2, w1)]

\* matrix_add(simd, m1, m2, w, h, res): the elementwise sum of two w x h
\* matrices.
matrix_add(m1, m2, w, h) == [r \in 1..(w * h) |-> m1[r] + m2[r]]

\* One activation value: the identity for a linear unit, otherwise the
\* unit's scalar function, left uninterpreted.
Activation(kind, v) ==
  IF kind = "linear" THEN v ELSE [fn |-> kind, arg |-> v]

\* ApplyActivationFunction(out, count): the unit's activation, elementwise
\* and in place.
ApplyActivationFunction(out, count, kind) ==
  [r \in 1..count |-> Activation(kind, out[r])]

\* InputCount() and OutputCount() of the configured unit.
InputCount == exec.input_count
OutputCount == exec.output_count

\* All2All::Execute(in, out)
Execute ==
  LET input_count == InputCount
      output_count == OutputCount
      tmp == matrix_multiply_transposed(exec.in, weights_, input_count,
                                        1, input_count, output_count)
      sum == matrix_add(tmp, bias_, 1, output_count)
  IN /\ exec' = [exec EXCEPT !.out =
                   ApplyActivationFunction(sum, output_count, exec.activation)]
     /\ call' = [NoCall EXCEPT !.op = "Execute"]
     /\ UNCHANGED <<weights_, bias_, weights_length_, bias_length_>>
     /\ UNCHANGED <<poolVars, updVars, tplVars>>

\* A configured unit: input_count * output_count weights, output_count
\* biases, an input vector and a caller-owned output buffer.
InitExec ==
  \E m \in 1..MaxCount, n \in 1..MaxCount :
    /\ weights_ \in [1..(m * n) -> WeightVals]
    /\ bias_ \in [1..n -> BiasVals]
    /\ weights_length_ = m * n
    /\ bias_length_ = n
    /\ call = NoCall
    /\ \E x \in [1..m -> InputVals], a \in Activations :
         exec = [in |-> x, out |-> [r \in 1..n |-> OutputInit],
                 input_count |-> m, output_count |-> n, activation |-> a]
    /\ PoolIdle
    /\ UpdIdle
    /\ TplIdle

NextExec == Execute

SpecExec == InitExec /\ [][NextExec]_vars

\* C3 as stated: with the weights read as input_count rows of output_count
\* columns (W[i][j] = weights[i * output_count + j]), Execute leaves
\* out[j] = activation(sum over i of W[i][j] * x[i] + b[j]).
C3_InputMajorLayout ==
  call.op = "Execute" =>
    \A j \in 0..(exec.output_count - 1) :
      At(exec.out, j) =
        Activation(exec.activation,
          SumSet([i \in 0..(exec.input_count - 1) |->
                    At(weights_, i * exec.output_count + j) * At(exec.in, i)],
                 0..(exec.input_count - 1))
          + At(bias_, j))

\* C3 (amended): the weights are read as output_count rows of input_count
\* columns (W[j][i] = weights[j * input_count + i]); Execute leaves
\* out[j] = activation(sum over i of W[j][i] * x[i] + b[j]) for every j.
C3_OutputMajorLayout ==
  call.op = "Execute" =>
    /\ Len(exec.out) = exec.output_count
    /\ \A j \in 0..(exec.output_count - 1) :
         At(exec.out, j) =
           Activation(exec.activation,
             SumSet([i \in 0..(exec.input_count - 1) |->
                       At(weights_, j * exec.input_count + i) * At(exec.in, i)],
                    0..(exec.input_count - 1))
             + At(bias_, j))

\* Execute has run on a 2 x 2 layer whose weight buffer is not symmetric, so
\* the two layouts give different outputs.
C3_Witness ==
  /\ call.op = "Execute"
  /\ exec.input_count = 2
  /\ exec.output_count = 2
  /\ At(weights_, 1) # At(weights_, 2)
  /\ exec.activation = "linear"


(***************************************************************************)
(* Pooling back-propagation: geometry.                                     *)
(***************************************************************************)
\* Bounds on the externally defined geometry.
MaxSX == 5
MaxSY == 2
MaxChannels == 2
MaxKX == 3
MaxKY == 2
MaxSlide == 2
MaxBatch == 2
\* Bounds on the buffers: elements of err_h and of err_y (work-items).
MaxCells == 6
MaxItems == 4

\* The macros the kernels expect to be defined externally.
SX == geom.SX
SY == geom.SY
N_CHANNELS == geom.N_CHANNELS
KX == geom.KX
KY == geom.KY
SLIDE_X == geom.SLIDE_X
SLIDE_Y == geom.SLIDE_Y

\* The number of pooling windows along one axis.  OUT_SX and OUT_SY come
\* from pooling_common.cl, which the kernel file only includes, so both
\* conventions a pooling layer can follow are admitted: a window starts at
\* every multiple of the stride inside the input (OutCeil), or windows are
\* added until one reaches the input edge (OutFit).  Either way every
\* window starts inside the input.
OutCeil(S, SL) == IF S % SL = 0 THEN S \div SL ELSE S \div SL + 1
OutFit(S, K, SL) ==
  IF (S - K) % SL = 0 THEN (S - K) \div SL + 1 ELSE (S - K) \div SL + 2
OutSizes(S, K, SL) ==
  {n \in {OutCeil(S, SL), OutFit(S, K, SL)} : n >= 1 /\ (n - 1) * SL < S}

OUT_SX == geom.OUT_SX
OUT_SY == geom.OUT_SY

\* The geometries within the bounds: the kernel fits into the input.
Geoms ==
  UNION {
    {[SX |-> b.SX, SY |-> b.SY, N_CHANNELS |-> b.N_CHANNELS,
      KX |-> b.KX, KY |-> b.KY,
      SLIDE_X |-> b.SLIDE_X, SLIDE_Y |-> b.SLIDE_Y,
      OUT_SX |-> ox, OUT_SY |-> oy, batch |-> b.batch] :
        ox \in OutSizes(b.SX, b.KX, b.SLIDE_X),
        oy \in OutSizes(b.SY, b.KY, b.SLIDE_Y)} :
    b \in {c \in [SX : 1..MaxSX, SY : 1..MaxSY, N_CHANNELS : 1..MaxChannels,
                  KX : 1..MaxKX, KY : 1..MaxKY,
                  SLIDE_X : 1..MaxSlide, SLIDE_Y : 1..MaxSlide,
                  batch : 1..MaxBatch] :
             /\ c.KX <= c.SX
             /\ c.KY <= c.SY
             /\ c.batch * c.SY * c.SX * c.N_CHANNELS <= MaxCells}}

\* The number of elements of err_y (the global size) and of err_h.
ItemCount(g) == g.batch * g.OUT_SY * g.OUT_SX * g.N_CHANNELS
CellCount(g) == g.batch * g.SY * g.SX * g.N_CHANNELS

Items == 0..(ItemCount(geom) - 1)
Cells == 0..(CellCount(geom) - 1)

RECURSIVE Factorial(_)
Factorial(n) == IF n <= 1 THEN 1 ELSE n * Factorial(n - 1)

\* Every err_y value is a multiple of Unit, so that err_y[idx] / (NY * NX)
\* is exact for every window size.
Unit == Factorial(MaxKX) * Factorial(MaxKY)

\* The error fields: a ramp (all values distinct) and a uniform field.
ErrYs(g) ==
  {[idx \in 0..(ItemCount(g) - 1) |-> Unit * (idx + 1)],
   [idx \in 0..(ItemCount(g) - 1) |-> Unit]}

\* What err_h holds where nobody has cleared it.
Garbage == 0 - 1

\* #if (SLIDE_X >= KX) && (SLIDE_Y >= KY): plain stores.
Direct == (SLIDE_X >= KX) /\ (SLIDE_Y >= KY)

\* #if (SLIDE_X < KX) || (SLIDE_Y < KY): USE_ATOMICS.
USE_ATOMICS == (SLIDE_X < KX) \/ (SLIDE_Y < KY)

\* A work-item that has not run.
NoItem == [avg |-> 0, nx |-> 0, ny |-> 0, cells |-> {}]

(***************************************************************************)
(* gd_avg_pooling                                                          *)
(***************************************************************************)
target_x(gid) == gid % (OUT_SX * N_CHANNELS)
target_y(gid) == gid \div (OUT_SX * N_CHANNELS)

\* TARGET_PIXEL_X and TARGET_CHANNEL of pooling_common.cl: the window column
\* and the channel packed into target_x.
TARGET_PIXEL_X(gid) == target_x(gid) \div N_CHANNELS
TARGET_CHANNEL(gid) == target_x(gid) % N_CHANNELS

\* start_x without the channel stride on the window's offset.
start_x_NoChannelStride(gid) ==
  TARGET_PIXEL_X(gid) * SLIDE_X + TARGET_CHANNEL(gid)

start_x(gid) ==
  TARGET_PIXEL_X(gid) * SLIDE_X * N_CHANNELS + TARGET_CHANNEL(gid)

start_y(gid) == (target_y(gid) % OUT_SY) * SLIDE_Y

\* The nominal kernel height whatever the window.
NY_Nominal(gid) == KY

\* #define NY, lines 60-64.
NY(gid) ==
  IF (OUT_SY - 1) * SLIDE_Y + KY = SY
  THEN KY
  ELSE Min(KY, SY - (target_y(gid) % OUT_SY) * SLIDE_Y)

\* The nominal kernel width whatever the window.
NX_Nominal(gid) == KX

\* #define NX, lines 66-70.
NX(gid) ==
  IF (OUT_SX - 1) * SLIDE_X + KX = SX
  THEN KX
  ELSE Min(KX, SX - TARGET_PIXEL_X(gid) * SLIDE_X)

\* offs before the loops.
offs(gid) == ((target_y(gid) \div OUT_SY) * SY + start_y(gid)) * SX * N_CHANNELS

\* The values of i for which the outer loop's body runs.
LoopI(gid) ==
  IF (OUT_SY - 1) * SLIDE_Y + KY = SY
  THEN 0..(KY - 1)
  ELSE {i \in 0..(KY - 1) : start_y(gid) + i < SY}

\* The values of j for which the inner loop's body runs.
LoopJ(gid) ==
  IF (OUT_SX - 1) * SLIDE_X + KX = SX
  THEN 0..(KX - 1)
  ELSE {j \in 0..(KX - 1) : start_x(gid) + j * N_CHANNELS < SX * N_CHANNELS}

\* The index offs + x the loop body writes in iteration (i, j).
Target(gid, i, j) ==
  offs(gid) + i * SX * N_CHANNELS + start_x(gid) + j * N_CHANNELS

\* The body always stores, also where stores of several work-items meet.
WriteCell_Store(old, v) == v

\* The loop body, lines 86-90: a plain store, or ATOM_ADD.
WriteCell(old, v) == IF Direct THEN v ELSE old + v

\* gd_avg_pooling, one work-item.
gd_avg_pooling(gid) ==
  LET idx == target_y(gid) * OUT_SX * N_CHANNELS + target_x(gid)
      avg == err_y[idx] \div (NY(gid) * NX(gid))
      written == {Target(gid, i, j) : i \in LoopI(gid), j \in LoopJ(gid)}
  IN /\ err_h' = [p \in DOMAIN err_h |->
                    IF p \in written THEN WriteCell(err_h[p], avg)
                    ELSE err_h[p]]
     /\ item' = [item EXCEPT ![gid] =
                   [avg |-> avg, nx |-> NX(gid), ny |-> NY(gid),
                    cells |-> written]]
     /\ ran' = ran \cup {gid}
     /\ UNCHANGED <<geom, err_y, h_offs>>
     /\ UNCHANGED <<a2aVars, updVars, tplVars>>

\* The All2All object is not involved.
A2AIdle ==
  /\ weights_ = Null
  /\ bias_ = Null
  /\ weights_length_ = 0
  /\ bias_length_ = 0
  /\ call = NoCall
  /\ exec = NoExec

\* err_h is zero-filled where the documentation asks for it (SLIDE_X < KX or
\* SLIDE_Y < KY) and holds anything otherwise.
InitAvg ==
  /\ geom \in {g \in Geoms : ItemCount(g) <= MaxItems}
  /\ err_y \in ErrYs(geom)
  /\ \E fill \in {0, Garbage} :
       /\ USE_ATOMICS => fill = 0
       /\ err_h = [p \in Cells |-> fill]
  /\ h_offs = <<>>
  /\ ran = {}
  /\ item = [gid \in Items |-> NoItem]
  /\ A2AIdle
  /\ UpdIdle
  /\ TplIdle

\* The work-items of one launch run in any order, each once.
AvgItem == \E gid \in Items \ ran : gd_avg_pooling(gid)

NextAvg == AvgItem

SpecAvg == InitAvg /\ [][NextAvg]_vars

\* C5: every work-item of gd_avg_pooling divides err_y[idx] by NX * NY with
\* NX = min(KX, SX - px * SLIDE_X) and NY = min(KY, SY - py * SLIDE_Y), which
\* is exactly the number of err_h elements its two loops visit, also for a
\* window clipped on both axes; so what it hands out sums to err_y[idx].
C5_DivisorIsClippedArea ==
  \A gid \in ran :
    LET px == (gid % (OUT_SX * N_CHANNELS)) \div N_CHANNELS
        py == (gid \div (OUT_SX * N_CHANNELS)) % OUT_SY
    IN /\ item[gid].nx = Min(KX, SX - px * SLIDE_X)
       /\ item[gid].ny = Min(KY, SY - py * SLIDE_Y)
       /\ Cardinality(LoopI(gid)) * Cardinality(LoopJ(gid))
            = item[gid].nx * item[gid].ny
       /\ Cardinality(item[gid].cells) = item[gid].nx * item[gid].ny
       /\ item[gid].avg * Cardinality(item[gid].cells) = err_y[gid]

\* A work-item whose window is clipped on both axes at once has run.
C5_Witness ==
  \E gid \in ran :
    /\ item[gid].nx < KX
    /\ item[gid].ny < KY
    /\ item[gid].avg # 0

\* C6 as stated: with SX = 5, KX = 3, SLIDE_X = 2 the final window along x
\* divides its error by 2.
C6_FinalWindowDividesByTwo ==
  (geom.SX = 5 /\ KX = 3 /\ SLIDE_X = 2) =>
    \A gid \in ran :
      TARGET_PIXEL_X(gid) = OUT_SX - 1 => item[gid].nx = 2

\* C6 (amended): with SX = 5, KX = 3, SLIDE_X = 2 the final window along x
\* divides its error by the number of columns it covers: by 1 when it starts
\* at x = 4 and is clipped (OUT_SX = 3), by 3 when it starts at x = 2 and is
\* not clipped (OUT_SX = 2); a clipped window never uses the nominal 3.
C6_FinalWindowDividesByCoveredColumns ==
  (geom.SX = 5 /\ KX = 3 /\ SLIDE_X = 2) =>
    /\ OUT_SX \in {2, 3}
    /\ \A gid \in ran :
         TARGET_PIXEL_X(gid) = OUT_SX - 1 =>
           /\ OUT_SX = 3 => item[gid].nx = 1
           /\ OUT_SX = 2 => item[gid].nx = 3
           /\ item[gid].nx = Cardinality(LoopJ(gid))

\* The clipped final window of the SX = 5, KX = 3, SLIDE_X = 2 geometry has
\* been back-propagated.
C6_Witness ==
  /\ geom.SX = 5 /\ KX = 3 /\ SLIDE_X = 2 /\ OUT_SX = 3
  /\ \E gid \in ran :
       /\ TARGET_PIXEL_X(gid) = OUT_SX - 1
       /\ item[gid].cells = {4}

\* C7: with SLIDE_X >= KX and SLIDE_Y >= KY (plain stores) no two work-items
\* of gd_avg_pooling write the same element of err_h, so every element a
\* work-item wrote holds that work-item's value whatever ran in between.
C7_DirectWritesAreDisjoint ==
  ((geom.SX > 0) /\ (SLIDE_X >= KX) /\ (SLIDE_Y >= KY)) =>
    /\ \A g1 \in ran, g2 \in ran :
         g1 # g2 => item[g1].cells \cap item[g2].cells = {}
    /\ \A gid \in ran : \A p \in item[gid].cells : err_h[p] = item[gid].avg

\* A whole launch in plain-store mode with two channels and at least three
\* work-items has completed.
C7_Witness ==
  /\ geom.SX > 0
  /\ Direct
  /\ N_CHANNELS = 2
  /\ Cardinality(Items) >= 3
  /\ ran = Items

\* C10: with SLIDE_X >= KX and SLIDE_Y >= KY, once every work-item of
\* gd_avg_pooling has run, every element of err_h has been overwritten (so
\* the result does not depend on what err_h held before).
C10_DirectLaunchOverwritesAll ==
  ((geom.SX > 0) /\ (SLIDE_X >= KX) /\ (SLIDE_Y >= KY) /\ ran = Items) =>
    \A p \in Cells : \E gid \in Items : p \in item[gid].cells

(***************************************************************************)
(* gd_max_pooling                                                          *)
(***************************************************************************)
\* The err_h elements inside the pooling window of output element idx: the
\* positions the forward pass can record as its arg-max.
Window(idx) == {Target(idx, i, j) : i \in LoopI(idx), j \in LoopJ(idx)}

\* Bounds on the buffers of a gd_max_pooling launch: elements of err_y (and
\* of h_offs) and of err_h.
MaxOffsItems == 3
MaxOffsCells == 4

\* gd_max_pooling, one work-item.
gd_max_pooling(idx) ==
  /\ err_h' = [err_h EXCEPT ![h_offs[idx]] = WriteCell(@, err_y[idx])]
  /\ item' = [item EXCEPT ![idx] =
                [avg |-> err_y[idx], nx |-> 0, ny |-> 0,
                 cells |-> {h_offs[idx]}]]
  /\ ran' = ran \cup {idx}
  /\ UNCHANGED <<geom, err_y, h_offs>>
  /\ UNCHANGED <<a2aVars, updVars, tplVars>>

\* err_h is zero-filled, as the documentation asks.  With overlapping
\* windows h_offs is any map into err_h; with plain stores it is what a
\* forward pass records, an element of each output's own window.  The kernel
\* reads neither N_CHANNELS nor the batch size, which stay 1 here.
InitMax ==
  /\ geom \in {g \in Geoms : /\ ItemCount(g) <= MaxOffsItems
                             /\ CellCount(g) <= MaxOffsCells
                             /\ g.N_CHANNELS = 1
                             /\ g.batch = 1}
  /\ err_y \in ErrYs(geom)
  /\ err_h = [p \in Cells |-> 0]
  /\ h_offs \in [Items -> Cells]
  /\ Direct => \A idx \in Items : h_offs[idx] \in Window(idx)
  /\ ran = {}
  /\ item = [gid \in Items |-> NoItem]
  /\ A2AIdle
  /\ UpdIdle
  /\ TplIdle

\* The work-items of one launch run in any order, each once.
MaxItem == \E idx \in Items \ ran : gd_max_pooling(idx)

NextMax == MaxItem

SpecMax == InitMax /\ [][NextMax]_vars

\* C4: started from a zero err_h, gd_max_pooling leaves in err_h[p] the sum
\* of err_y[idx] over the work-items idx that have run with h_offs[idx] = p,
\* in any interleaving; at the end of the launch that is the sum over all idx
\* with h_offs[idx] = p (0 where no window has its arg-max).  With atomics
\* this holds for any h_offs, with plain stores when no position is the
\* arg-max of two windows.
C4_ScatterSumsPerPosition ==
  (geom.SX > 0 /\
   (USE_ATOMICS \/ \A a \in Items, b \in Items :
                      h_offs[a] = h_offs[b] => a = b)) =>
    \A p \in Cells :
      err_h[p] = SumSet(err_y, {idx \in ran : h_offs[idx] = p})

\* A whole launch with overlapping windows has completed in which two
\* outputs share their arg-max position and another position is nobody's.
C4_Witness ==
  /\ geom.SX > 0
  /\ USE_ATOMICS
  /\ ran = Items
  /\ \E a \in Items, b \in Items : a # b /\ h_offs[a] = h_offs[b]
  /\ \E p \in Cells : \A idx \in Items : h_offs[idx] # p

(***************************************************************************)
(* weights_update                                                          *)
(***************************************************************************)
\* Largest number of weights (work-items) of a launch.
MaxWeights == 4

\* The macros and arguments of the kernel.
H == upd.H
Y == upd.Y
USE_ORTHO == upd.USE_ORTHO
WEIGHTS_TRANSPOSED == upd.WEIGHTS_TRANSPOSED

\* The launches: H * Y weights, scalar arguments from small sets, a
\* weight buffer of either sign, a gradient and column sums whose entries
\* all differ.
Launches ==
  {[H |-> h, Y |-> y, USE_ORTHO |-> o, WEIGHTS_TRANSPOSED |-> t,
    lr |-> lr, factor_l12 |-> f, l1_vs_l2 |-> l, factor_ortho |-> 3,
    gradient |-> [idx \in 0..(h * y - 1) |-> 7 * idx + 1],
    col_sums |-> [c \in 0..(h - 1) |-> 100 * (c + 1)],
    w0 |-> [idx \in 0..(h * y - 1) |-> sgn * (idx + 2)]] :
      h \in 1..MaxWeights, y \in 1..MaxWeights, o \in {0, 1}, t \in {0, 1},
      lr \in {1, 2}, f \in {0, 5}, l \in {0, 1}, sgn \in {0 - 1, 1}}

Sign(v) == IF v > 0 THEN 1 ELSE IF v < 0 THEN 0 - 1 ELSE 0

\* gradient_step_l12(weight, factor, l1_vs_l2): the L1/L2 blend, factor *
\* weight at l1_vs_l2 = 0 and factor * sign(weight) at l1_vs_l2 = 1.
gradient_step_l12(weight, factor, l1_vs_l2) ==
  factor * ((1 - l1_vs_l2) * weight + l1_vs_l2 * Sign(weight))

\* gradient_step_ortho(weight, factor, col, Y, col_sums): the penalty on the
\* weight's correlation with the rest of column col.
gradient_step_ortho(weight, factor, col, y, col_sums) ==
  factor * (col_sums[col] - weight)

\* The column taken as if the weights were never transposed.
OrthoColumn_NeverTransposed(idx) == idx % H

\* The column argument of gradient_step_ortho, lines 4-8.
OrthoColumn(idx) ==
  IF WEIGHTS_TRANSPOSED > 0 THEN idx \div Y ELSE idx % H

\* dtype gd of weights_update.store_output.cu, lines 1-10, with
\* sum = gradient[idx] of the enclosing kernel.
Gd(idx, weight, sum) ==
  (0 - upd.lr) *
    (sum + gradient_step_l12(weight, upd.factor_l12, upd.l1_vs_l2)
       + (IF USE_ORTHO > 0
          THEN gradient_step_ortho(weight, upd.factor_ortho,
                                   OrthoColumn(idx), Y, upd.col_sums)
          ELSE 0))

\* gradient_descent.store_output: the delta is applied to weights[idx].
StoreOutput(w, idx, weight, delta) == [w EXCEPT ![idx] = weight + delta]

\* weights_update, one work-item.
weights_update(idx) ==
  LET sum == upd.gradient[idx]
      weight == weights[idx]
      delta == Gd(idx, weight, sum)
  IN /\ gd' = [gd EXCEPT ![idx] = delta]
     /\ weights' = StoreOutput(weights, idx, weight, delta)
     /\ stepped' = stepped \cup {idx}
     /\ UNCHANGED upd
     /\ UNCHANGED <<a2aVars, poolVars, tplVars>>

InitUpd ==
  /\ upd \in {u \in Launches : u.H * u.Y <= MaxWeights}
  /\ weights = upd.w0
  /\ gd = [idx \in 0..(H * Y - 1) |-> 0]
  /\ stepped = {}
  /\ A2AIdle
  /\ PoolIdle
  /\ TplIdle

\* The work-items of one launch run in any order, each once.
UpdItem == \E idx \in (0..(H * Y - 1)) \ stepped : weights_update(idx)

NextUpd == UpdItem

SpecUpd == InitUpd /\ [][NextUpd]_vars

\* C9: every work-item idx that has run computed
\* gd = -lr * (gradient[idx] + L1L2Penalty(weights[idx]) + ortho), the ortho
\* term being there exactly when USE_ORTHO > 0 and taken for column idx / Y
\* when WEIGHTS_TRANSPOSED > 0 and idx % H otherwise; it changed weights[idx]
\* by gd and no other weight, so a weight whose work-item has not run is
\* untouched.
C9_DeltaAndFrame ==
  upd.H > 0 =>
    \A idx \in 0..(upd.H * upd.Y - 1) :
      LET w == upd.w0[idx]
          col == IF upd.WEIGHTS_TRANSPOSED > 0
                 THEN idx \div upd.Y ELSE idx % upd.H
          ortho == IF upd.USE_ORTHO > 0
                   THEN gradient_step_ortho(w, upd.factor_ortho, col, upd.Y,
                                            upd.col_sums)
                   ELSE 0
          expected == (0 - upd.lr) *
                        (upd.gradient[idx]
                         + gradient_step_l12(w, upd.factor_l12, upd.l1_vs_l2)
                         + ortho)
      IN IF idx \in stepped
         THEN gd[idx] = expected /\ weights[idx] = w + expected
         ELSE weights[idx] = w

\* A launch on a transposed 2 x 2 weight matrix with the ortho term has
\* updated the weight at index 1 (column 0 transposed, column 1 otherwise)
\* and not yet the others.
C9_Witness ==
  /\ upd.H = 2 /\ upd.Y = 2
  /\ USE_ORTHO > 0
  /\ WEIGHTS_TRANSPOSED > 0
  /\ stepped = {1}

(***************************************************************************)
(* The denormalization kernel template.                                    *)
(***************************************************************************)
\* Largest scalar coefficient handed to the template.
MaxCoeff == 2

\* The normalization modes the template tests for, and other modes a
\* workflow can name.
RecognizedModes == {"pointwise", "mean_disp", "none", "range_linear"}
OtherModes == {"linear", "exp", "external_mean"}

\* Per-sample coefficient arrays (pointwise, mean_disp).
CoeffArrays == {<<1>>, <<2, 4>>}

\* The coeffs handed over with a mode: two arrays for the per-sample modes,
\* four scalars otherwise (indexed from 0 in the template).
CoeffsFor(mode) ==
  IF mode \in {"pointwise", "mean_disp"}
  THEN {<<a, b>> : a \in CoeffArrays, b \in CoeffArrays}
  ELSE [1..4 -> 0..MaxCoeff]

\* coeffs[k] of the template.
Coeff(k) == tpl.coeffs[k + 1]

\* {{ a / b }}: the template engine's division, kept as an exact fraction;
\* a zero divisor raises ZeroDivisionError.
Quotient(a, b) ==
  IF b = 0 THEN [raise |-> "ZeroDivisionError"] ELSE [num |-> a, den |-> b]

\* Lines 1-10: the __constant__ declarations.
Declarations ==
  IF tpl.normalization = "pointwise"
  THEN <<[name |-> "mul[]", value |-> Coeff(0)],
         [name |-> "sub[]", value |-> Coeff(1)]>>
  ELSE IF tpl.normalization = "mean_disp"
  THEN <<[name |-> "mean[]", value |-> Coeff(0)],
         [name |-> "disp[]", value |-> Coeff(1)]>>
  ELSE IF tpl.normalization = "range_linear"
  THEN <<[name |-> "sub",
          value |-> Quotient(Coeff(2) * Coeff(1) - Coeff(3) * Coeff(0),
                             Coeff(2) - Coeff(3))],
         [name |-> "mul",
          value |-> Quotient(Coeff(2) - Coeff(3), Coeff(0) - Coeff(1))]>>
  ELSE <<>>

\* An else branch that emits nothing.
ElseBranch_Empty == <<>>

\* Lines 22-23: the else branch of denormalize's body.
ElseBranch ==
  <<[kind |-> "#error", text |-> "Unsupported normalization type"]>>

\* Lines 13-25: the body of denormalize.
Body ==
  IF tpl.normalization = "pointwise"
  THEN <<[kind |-> "return", text |-> "(src - sub[index]) / mul[index]"]>>
  ELSE IF tpl.normalization = "mean_disp"
  THEN <<[kind |-> "return", text |-> "src * disp[index] + mean[index]"]>>
  ELSE IF tpl.normalization = "none"
  THEN <<[kind |-> "return", text |-> "src"]>>
  ELSE IF tpl.normalization = "range_linear"
  THEN <<[kind |-> "return", text |-> "(src - sub) * mul"]>>
  ELSE ElseBranch

\* Expanding the template: the source text, unless evaluating an expression
\* raised.
Expand ==
  /\ kernel.status = "none"
  /\ LET raised == {i \in 1..Len(Declarations) :
                      "raise" \in DOMAIN Declarations[i].value}
     IN kernel' =
          IF tpl.normalization = "range_linear" /\ raised # {}
          THEN [status |-> "expansion failed",
                error |-> "ZeroDivisionError",
                declarations |-> <<>>, body |-> <<>>, compiled |-> "no"]
          ELSE [status |-> "expanded", error |-> "none",
                declarations |-> Declarations, body |-> Body,
                compiled |-> "no"]
  /\ UNCHANGED tpl
  /\ UNCHANGED <<a2aVars, poolVars, updVars>>

\* Compiling the expanded source: the preprocessor stops at an #error
\* directive; a source without one is accepted.
Compile ==
  /\ kernel.status = "expanded"
  /\ kernel.compiled = "no"
  /\ kernel' = [kernel EXCEPT !.compiled =
                  IF \E i \in 1..Len(kernel.body) :
                       kernel.body[i].kind = "#error"
                  THEN "rejected" ELSE "accepted"]
  /\ UNCHANGED tpl
  /\ UNCHANGED <<a2aVars, poolVars, updVars>>

InitTpl ==
  /\ \E mode \in RecognizedModes \cup OtherModes :
       \E c \in CoeffsFor(mode) : tpl = [normalization |-> mode, coeffs |-> c]
  /\ kernel = [status |-> "none"]
  /\ A2AIdle
  /\ PoolIdle
  /\ UpdIdle

NextTpl == Expand \/ Compile

SpecTpl == InitTpl /\ [][NextTpl]_vars

\* C8 as stated: expanding the template with a mode other than none,
\* pointwise, mean_disp or range_linear fails at expansion time.
C8_UnknownModeFailsExpansion ==
  (kernel.status # "none" /\
   tpl.normalization \notin {"none", "pointwise", "mean_disp", "range_linear"})
    => kernel.status = "expansion failed"

\* C8 (amended): expanding the template with a mode other than none,
\* pointwise, mean_disp or range_linear succeeds and yields a source with no
\* declarations whose denormalize body is the single directive
\* "#error Unsupported normalization type", so the failure is raised when the
\* source is compiled and the source is never accepted; each of the four
\* recognized modes, whenever its expansion completes, yields a body of
\* exactly one statement, that mode's return.
C8_UnknownModeFailsCompilation ==
  kernel.status # "none" =>
    IF tpl.normalization \in {"none", "pointwise", "mean_disp", "range_linear"}
    THEN kernel.status = "expanded" =>
           /\ Len(kernel.body) = 1
           /\ kernel.body[1].kind = "return"
           /\ kernel.body[1].text =
                (CASE tpl.normalization = "pointwise" ->
                        "(src - sub[index]) / mul[index]"
                   [] tpl.normalization = "mean_disp" ->
                        "src * disp[index] + mean[index]"
                   [] tpl.normalization = "none" -> "src"
                   [] tpl.normalization = "range_linear" ->
                        "(src - sub) * mul")
           /\ kernel.compiled \in {"no", "accepted"}
    ELSE /\ kernel.status = "expanded"
         /\ kernel.declarations = <<>>
         /\ Len(kernel.body) = 1
         /\ kernel.body[1].kind = "#error"
         /\ kernel.compiled \in {"no", "rejected"}

\* The source expanded for an unrecognized mode has been handed to the
\* compiler, which rejected it.
C8_Witness ==
  /\ tpl.normalization = "exp"
  /\ kernel.status = "expanded"
  /\ kernel.compiled = "rejected"

=============================================================================
